---- MODULE Spec2Model ----
(***************************************************************************)
(* Model of the market-news pipeline script src/src/market_news.py.        *)
(*                                                                         *)
(* The file holds two drafts of the same script one after the other: lines *)
(* 1-98 are an earlier draft cut off in the middle of its sentiment loop,  *)
(* lines 99-314 are the complete script.  The model is the complete script *)
(* (lines 99-314): fetch assets, fetch news, score sentiment, aggregate    *)
(* daily metrics and classify them, write one market brief per asset.      *)
(*                                                                         *)
(* The tables of the managed store (news, news_nlp, daily_metrics,         *)
(* market_briefs) are sets of rows.  One execution of the script is one    *)
(* run: its module-level variables (news_rows, rows, metric_rows, metrics, *)
(* today) live for that run only, the tables live on between runs.         *)
(*                                                                         *)
(* Python floats are binary floating-point numbers rounded to nearest,     *)
(* ties to even, after every operation.  They are modelled as such, with   *)
(* a significand of Precision bits (53 in CPython; a small number here so  *)
(* that the arithmetic stays within the model checker's integers).         *)
(***************************************************************************)
EXTENDS Integers, Sequences, FiniteSets, TLC

\* ------------------------------------------------------------------------
\* Bounds of the model
\* ------------------------------------------------------------------------

\* bits of a float's significand (binary64 has 53)
Precision == 4

\* executions of the script
MaxRuns == 2

\* entries the RSS feeds return to one run
MaxFeed == 2

\* ------------------------------------------------------------------------
\* Floating point: a float is the dyadic rational num / 2^exp
\* ------------------------------------------------------------------------

RECURSIVE Pow2(_)
Pow2(n) == IF n = 0 THEN 1 ELSE 2 * Pow2(n - 1)

Abs(i) == IF i < 0 THEN -i ELSE i

Max(a, b) == IF a >= b THEN a ELSE b

\* num / 2^exp in lowest terms, so that equal floats are equal records
RECURSIVE Dyadic(_, _)
Dyadic(num, exp) ==
    IF num = 0 THEN [num |-> 0, exp |-> 0]
    ELSE IF exp > 0 /\ num % 2 = 0 THEN Dyadic(num \div 2, exp - 1)
    ELSE [num |-> num, exp |-> exp]

Zero == Dyadic(0, 0)

\* the least t >= 0 with a * 2^t >= d * 2^(Precision-1)
RECURSIVE ShiftUp(_, _, _)
ShiftUp(a, d, t) ==
    IF a * Pow2(t) >= d * Pow2(Precision - 1) THEN t ELSE ShiftUp(a, d, t + 1)

\* the least t >= 0 with a < d * 2^t * 2^Precision
RECURSIVE ShiftDown(_, _, _)
ShiftDown(a, d, t) ==
    IF a < d * Pow2(t) * Pow2(Precision) THEN t ELSE ShiftDown(a, d, t + 1)

\* n / d rounded half to even to an integer (n >= 0, d > 0)
RoundHalfEven(n, d) ==
    LET q == n \div d
        r == n % d
    IN  IF 2 * r > d \/ (2 * r = d /\ q % 2 = 1) THEN q + 1 ELSE q

\* the float nearest to the rational n / d (d > 0), ties to even
Round(n, d) ==
    IF n = 0 THEN Zero
    ELSE LET a    == Abs(n)
             sgn  == IF n < 0 THEN -1 ELSE 1
             up   == ShiftUp(a, d, 0)
             down == ShiftDown(a, d, 0)
         IN  IF down > 0
             THEN Dyadic(sgn * RoundHalfEven(a, d * Pow2(down)) * Pow2(down), 0)
             ELSE Dyadic(sgn * RoundHalfEven(a * Pow2(up), d), up)

\* x + y, x - y, x * y, x / n (n a positive int), x ** 0.5, -x
FAdd(x, y) ==
    LET e == Max(x.exp, y.exp)
    IN  Round(x.num * Pow2(e - x.exp) + y.num * Pow2(e - y.exp), Pow2(e))

FNeg(x) == Dyadic(-x.num, x.exp)

FSub(x, y) == FAdd(x, FNeg(y))

FMul(x, y) == Round(x.num * y.num, Pow2(x.exp + y.exp))

FDiv(x, n) == Round(x.num, n * Pow2(x.exp))

\* floor of the square root of n >= 0
RECURSIVE ISqrtFrom(_, _)
ISqrtFrom(n, r) == IF (r + 1) * (r + 1) > n THEN r ELSE ISqrtFrom(n, r + 1)

\* the least t = t0, t0 + 2, ... with num * 2^t >= 4^(Precision-1)
RECURSIVE SqrtShift(_, _)
SqrtShift(num, t) ==
    IF num * Pow2(t) >= Pow2(2 * (Precision - 1)) THEN t ELSE SqrtShift(num, t + 2)

\* x ** 0.5 for 0 <= x < 4^Precision, as the correctly rounded square root:
\* sqrt(num / 2^exp) = sqrt(num * 2^t) / 2^((exp+t)/2)
FSqrt(x) ==
    IF x.num = 0 THEN Zero
    ELSE LET t  == SqrtShift(x.num, x.exp % 2)
             n  == x.num * Pow2(t)
             r  == ISqrtFrom(n, 0)
             \* sqrt(n) is above r + 1/2 iff 4n > (2r+1)^2; equality cannot hold
             q  == IF 4 * n > (2 * r + 1) * (2 * r + 1) THEN r + 1 ELSE r
         IN  Round(q, Pow2((x.exp + t) \div 2))

\* x > y, x < y
FGt(x, y) ==
    LET e == Max(x.exp, y.exp)
    IN  x.num * Pow2(e - x.exp) > y.num * Pow2(e - y.exp)

FLt(x, y) == FGt(y, x)

\* the float a decimal literal n / d denotes
Lit(n, d) == Round(n, d)

\* ------------------------------------------------------------------------
\* The store's rows and the outside world
\* ------------------------------------------------------------------------

\* SQL NULL / Python None
NULL == [null |-> TRUE]

\* LOOKBACK_DAYS = 1
LOOKBACK_DAYS == 1

\* rows the news table may hold
MaxNews == 3

\* rows written to the store by something other than this script
MaxExternal == 1

\* the assets table, which the script only reads (line 141)
assets ==
    << [asset_id |-> 1, ticker |-> "AAA", name |-> "Alpha"],
       [asset_id |-> 2, ticker |-> "BBB", name |-> "Beta"] >>

\* datetime(*entry.published_parsed[:6]).isoformat() is "YYYY-MM-DDTHH:MM:SS":
\* the calendar date in its first 10 characters, then the time of day
IsoFormat(day, time) == [date |-> day, time |-> time]

\* s[:10] of such a string
Prefix10(s) == s.date

\* The entries the RSS search of an asset can return.  published_parsed is
\* NULL for an entry that has no such attribute.
Feed ==
    << [asset_id |-> 1, link |-> "u1", summary |-> "rally",
        published_parsed |-> [day |-> 2, time |-> 9]],
       [asset_id |-> 1, link |-> "u2", summary |-> "probe",
        published_parsed |-> [day |-> 2, time |-> 17]],
       [asset_id |-> 1, link |-> "u3", summary |-> "flat",
        published_parsed |-> [day |-> 1, time |-> 9]],
       [asset_id |-> 2, link |-> "u4", summary |-> "slump",
        published_parsed |-> [day |-> 2, time |-> 9]],
       [asset_id |-> 2, link |-> "u5", summary |-> "rally",
        published_parsed |-> NULL] >>

\* the newest day an entry of Feed is published on
RECURSIVE NewestDay(_)
NewestDay(i) ==
    IF i = 0 THEN 0
    ELSE IF Feed[i].published_parsed = NULL THEN NewestDay(i - 1)
    ELSE Max(Feed[i].published_parsed.day, NewestDay(i - 1))

\* the calendar: days are numbered; the script is not run later than the day
\* after the newest entry (later, the lookback window holds nothing)
MaxDay == NewestDay(Len(Feed)) + LOOKBACK_DAYS

\* sentiment_pipeline(text)[0]: the top label of FinBERT and its probability,
\* a function of the text
sentiment_pipeline(content) ==
    CASE content = "rally" -> [label |-> "positive", score |-> Lit(95, 100)]
      [] content = "probe" -> [label |-> "negative", score |-> Lit(4, 10)]
      [] content = "slump" -> [label |-> "negative", score |-> Lit(9, 10)]
      [] OTHER             -> [label |-> "neutral",  score |-> Lit(8, 10)]

\* lines 192-196
sentiment_score(result) ==
    IF result.label = "positive" THEN result.score
    ELSE IF result.label = "negative" THEN FNeg(result.score)
    ELSE Zero

\* the elements of a sequence
Range(seq) == {seq[i] : i \in DOMAIN seq}

\* the sequences that hold every element of S once
RECURSIVE PermsOfSet(_)
PermsOfSet(S) ==
    IF S = {} THEN {<<>>}
    ELSE UNION {{<<x>> \o p : p \in PermsOfSet(S \ {x})} : x \in S}

\* the sequences that hold the elements of seq in some order
Reorderings(seq) ==
    {[i \in DOMAIN seq |-> seq[p[i]]] : p \in PermsOfSet(DOMAIN seq)}

\* ------------------------------------------------------------------------
\* 2. FETCH NEWS
\* ------------------------------------------------------------------------

\* the rows one asset's feed adds to news_rows: the inner loop, lines 159-172
RECURSIVE EntryRows(_, _, _)
EntryRows(asset, entries, i) ==
    IF i > Len(Feed) THEN <<>>
    ELSE IF i \notin entries \/ Feed[i].asset_id # asset.asset_id
    THEN EntryRows(asset, entries, i + 1)
    ELSE IF Feed[i].published_parsed = NULL
    THEN EntryRows(asset, entries, i + 1)
    ELSE << [asset_id     |-> asset.asset_id,
             content      |-> Feed[i].summary,
             url          |-> Feed[i].link,
             published_at |-> IsoFormat(Feed[i].published_parsed.day,
                                        Feed[i].published_parsed.time)] >>
         \o EntryRows(asset, entries, i + 1)

\* news_rows after the loop over the assets, lines 150-172
RECURSIVE FetchRows(_, _)
FetchRows(entries, a) ==
    IF a > Len(assets) THEN <<>>
    ELSE EntryRows(assets[a], entries, 1) \o FetchRows(entries, a + 1)

\* supabase.table("news").insert(news_rows): every row is a new row with the
\* next value of the table's serial news_id
InsertNews(table, news_rows) ==
    table \cup
    {[news_id      |-> Cardinality(table) + i,
      asset_id     |-> news_rows[i].asset_id,
      content      |-> news_rows[i].content,
      url          |-> news_rows[i].url,
      published_at |-> news_rows[i].published_at] : i \in DOMAIN news_rows}

\* ------------------------------------------------------------------------
\* 3. NLP
\* ------------------------------------------------------------------------

\* nlp_rows, lines 186-204 (one row per row of news)
NlpRows(table) ==
    {[news_id         |-> item.news_id,
      sentiment_score |-> sentiment_score(sentiment_pipeline(item.content)),
      sentiment_label |-> sentiment_pipeline(item.content).label] : item \in table}

\* supabase.table("news_nlp").upsert(nlp_rows, on_conflict="news_id")
UpsertNewsNlp(table, nlp_rows) ==
    {t \in table : \A r \in nlp_rows : r.news_id # t.news_id} \cup nlp_rows

\* ------------------------------------------------------------------------
\* 4. DAILY METRICS: the statistics of one group and its signal
\* ------------------------------------------------------------------------

\* sum(xs): Python's sum starts from the int 0 and adds from left to right
RECURSIVE Sum(_)
Sum(xs) ==
    IF xs = <<>> THEN Zero
    ELSE FAdd(Sum(SubSeq(xs, 1, Len(xs) - 1)), xs[Len(xs)])

\* avg = sum(scores) / len(scores)
Avg(scores) == FDiv(Sum(scores), Len(scores))

\* faulty variant of SqDev: the deviation is taken from 0, not from the mean
SqDevFromZero(s, avg) == FMul(s, s)

\* (s - avg) ** 2
SqDev(s, avg) == LET dev == FSub(s, avg) IN FMul(dev, dev)

\* std = (sum((s - avg) ** 2 for s in scores) / len(scores)) ** 0.5
Std(scores, avg) ==
    FSqrt(FDiv(Sum([i \in 1..Len(scores) |-> SqDev(scores[i], avg)]), Len(scores)))

\* the if / elif chain of lines 232-239
Signal(avg, std) ==
    IF FGt(avg, Lit(15, 100)) THEN "positive_momentum"
    ELSE IF FLt(avg, Lit(-15, 100)) THEN "caution"
    ELSE IF FGt(std, Lit(5, 10)) THEN "high_uncertainty"
    ELSE "neutral"

\* the select of lines 217-219: each news_nlp row with its news row embedded
\* (NULL when news_id refers to no row of news)
Joined(nlp, table) ==
    LET hit == {n \in table : n.news_id = nlp.news_id}
    IN  [sentiment_score |-> nlp.sentiment_score,
         news            |-> IF hit = {} THEN NULL
                             ELSE LET n == CHOOSE n \in hit : TRUE
                                  IN  [asset_id     |-> n.asset_id,
                                       published_at |-> n.published_at]]

\* a row on which lines 222-230 raise TypeError
Malformed(row) ==
    \/ row.news = NULL
    \/ row.news.published_at = NULL
    \/ row.sentiment_score = NULL

\* (asset_id, d) of lines 222-223
GroupKey(row) == <<row.news.asset_id, Prefix10(row.news.published_at)>>

\* faulty variant of Keys: a key for every row read, first seen or not
KeysOfEveryRow(rs) == [i \in DOMAIN rs |-> GroupKey(rs[i])]

\* the keys of the dict metrics, in insertion order
RECURSIVE Keys(_)
Keys(rs) ==
    IF rs = <<>> THEN <<>>
    ELSE LET before == Keys(SubSeq(rs, 1, Len(rs) - 1))
             k      == GroupKey(rs[Len(rs)])
         IN  IF k \in Range(before) THEN before ELSE Append(before, k)

\* metrics[key]: the scores appended for the key, in reading order
RECURSIVE Scores(_, _)
Scores(rs, key) ==
    IF rs = <<>> THEN <<>>
    ELSE LET before == Scores(SubSeq(rs, 1, Len(rs) - 1), key)
         IN  IF GroupKey(rs[Len(rs)]) = key
             THEN Append(before, rs[Len(rs)].sentiment_score)
             ELSE before

\* the dict appended to metric_rows, lines 241-248
MetricRow(key, scores) ==
    LET avg == Avg(scores)
        std == Std(scores, avg)
    IN  [asset_id      |-> key[1],
         metric_date   |-> key[2],
         avg_sentiment |-> avg,
         news_volume   |-> Len(scores),
         sentiment_std |-> std,
         signal        |-> Signal(avg, std)]

\* faulty variant of MetricRows: an "empty day" row when there is nothing to
\* aggregate
MetricRowsWithEmptyDay(rs) ==
    IF rs = <<>>
    THEN << [asset_id |-> assets[1].asset_id, metric_date |-> 0,
             avg_sentiment |-> Zero, news_volume |-> 0, sentiment_std |-> Zero,
             signal |-> "neutral"] >>
    ELSE [i \in DOMAIN Keys(rs) |-> MetricRow(Keys(rs)[i], Scores(rs, Keys(rs)[i]))]

\* metric_rows after the loop of lines 228-248
MetricRows(rs) ==
    LET keys == Keys(rs)
    IN  [i \in DOMAIN keys |-> MetricRow(keys[i], Scores(rs, keys[i]))]

\* faulty variant of UpsertDailyMetrics: an insert in place of the upsert
InsertDailyMetrics(table, metric_rows) == table \cup Range(metric_rows)

\* supabase.table("daily_metrics").upsert(metric_rows,
\*     on_conflict="asset_id,metric_date")
UpsertDailyMetrics(table, metric_rows) ==
    {t \in table : \A i \in DOMAIN metric_rows :
        <<t.asset_id, t.metric_date>>
            # <<metric_rows[i].asset_id, metric_rows[i].metric_date>>}
    \cup Range(metric_rows)

\* ------------------------------------------------------------------------
\* 5. MARKET BRIEFS
\* ------------------------------------------------------------------------

\* the select of lines 261-264
Window(table, start_date) == {m \in table : m.metric_date >= start_date}

\* rows = [m for m in metrics if m["asset_id"] == asset["asset_id"]]: the
\* asset's rows in the order metrics holds them.  The select of line 261 fixes
\* no order, and the order of one asset's rows does not bind another's: these
\* are the lists it can be.
RowsOf(ms, asset) == PermsOfSet({m \in ms : m.asset_id = asset.asset_id})

\* sum(x["signal"] == s for x in rows)
Count(rs, s) == Cardinality({i \in DOMAIN rs : rs[i].signal = s})

\* max(set(...), key=...) returns the first element of the set, in the set's
\* iteration order, that has the greatest key; a set of str iterates in the
\* order of the strings' hashes, which differ from process to process.  These
\* are the values it can return.
DominantSignals(rs) ==
    LET signals == {rs[i].signal : i \in DOMAIN rs}
    IN  {s \in signals : \A t \in signals : Count(rs, s) >= Count(rs, t)}

\* sum(r["news_volume"] for r in rows)
RECURSIVE TotalNews(_)
TotalNews(rs) ==
    IF rs = <<>> THEN 0
    ELSE TotalNews(SubSeq(rs, 1, Len(rs) - 1)) + rs[Len(rs)].news_volume

\* f"{x:.2f}": the sign and the hundredths, rounded half to even
Format2f(x) ==
    [sign  |-> IF x.num < 0 THEN "-" ELSE "",
     cents |-> RoundHalfEven(Abs(x.num) * 100, Pow2(x.exp))]

\* the prompt of lines 279-288, by its interpolated values
Prompt(asset, start_date, end_date, rs, sig) ==
    [asset      |-> <<asset.name, asset.ticker>>,
     period     |-> <<start_date, end_date>>,
     avg_sent   |-> Format2f(FDiv(Sum([i \in DOMAIN rs |-> rs[i].avg_sentiment]),
                                  Len(rs))),
     total_news |-> TotalNews(rs),
     avg_std    |-> Format2f(FDiv(Sum([i \in DOMAIN rs |-> rs[i].sentiment_std]),
                                  Len(rs))),
     signal     |-> sig]

\* the row of lines 306-312; the generated text is a function of the prompt
BriefRow(asset, start_date, end_date, prompt) ==
    [period_start |-> start_date,
     period_end   |-> end_date,
     scope        |-> asset.ticker,
     content      |-> prompt]

\* ------------------------------------------------------------------------
\* State
\* ------------------------------------------------------------------------

VARIABLES
    clock,          \* the calendar date when the script last read it
    runs,           \* executions of the script started so far
    external,       \* rows written by others so far
    pc,             \* the section the running script is at
    news,           \* table news
    news_nlp,       \* table news_nlp
    daily_metrics,  \* table daily_metrics
    market_briefs,  \* table market_briefs, in insertion order
    fetched,        \* the feed entries this run was given
    news_rows,      \* line 147
    rows,           \* line 217, in the order the select returned them; from
                    \* line 269 on, the metric rows of the asset at hand
    metric_rows,    \* line 226
    today,          \* line 214
    metrics,        \* line 261, the rows the select returned
    asset_i,        \* the position of the loop of line 268 in assets
    signal,         \* line 276
    last            \* what the previous run fetched and left in daily_metrics

tables == <<news, news_nlp, daily_metrics, market_briefs>>

locals == <<fetched, news_rows, rows, metric_rows, today, metrics, asset_i,
            signal>>

vars == <<clock, runs, external, pc, tables, locals, last>>

NoRun == [fetched |-> {}, daily_metrics |-> {}]

Init ==
    /\ clock = 2
    /\ runs = 1
    /\ external = 0
    /\ pc = "fetch"
    /\ news = {}
    /\ news_nlp = {}
    /\ daily_metrics = {}
    /\ market_briefs = <<>>
    /\ fetched = {}
    /\ news_rows = <<>>
    /\ rows = <<>>
    /\ metric_rows = <<>>
    /\ today = 0
    /\ metrics = {}
    /\ asset_i = 0
    /\ signal = ""
    /\ last = NoRun

\* ------------------------------------------------------------------------
\* The sections of the script
\* ------------------------------------------------------------------------

\* lines 147-177: the feeds return some entries; their rows are inserted
FetchNews ==
    /\ pc = "fetch"
    /\ \E entries \in SUBSET DOMAIN Feed :
        /\ Cardinality(entries) <= MaxFeed
        /\ Cardinality(news) + Len(FetchRows(entries, 1)) <= MaxNews
        /\ fetched' = entries
        /\ news_rows' = FetchRows(entries, 1)
        /\ news' = IF FetchRows(entries, 1) # <<>>
                   THEN InsertNews(news, FetchRows(entries, 1))
                   ELSE news
    /\ pc' = "nlp"
    /\ UNCHANGED <<clock, runs, external, news_nlp, daily_metrics, market_briefs,
                   rows, metric_rows, today, metrics, asset_i, signal, last>>

\* lines 182-209: every row of news is scored and its news_nlp row upserted
Sentiment ==
    /\ pc = "nlp"
    /\ news_nlp' = IF NlpRows(news) # {}
                   THEN UpsertNewsNlp(news_nlp, NlpRows(news))
                   ELSE news_nlp
    /\ pc' = "metrics"
    /\ UNCHANGED <<clock, runs, external, news, daily_metrics, market_briefs,
                   locals, last>>

\* lines 214-254: date.today() is read (days may have passed since it was
\* last read); the scored rows are read, in an order the select does not fix,
\* grouped, reduced and classified, and the metric rows upserted.  A row that
\* raises TypeError ends the script before the upsert.
DailyMetrics ==
    /\ pc = "metrics"
    /\ today' \in clock..MaxDay
    /\ clock' = today'
    /\ \E order \in PermsOfSet(news_nlp) :
        rows' = [i \in DOMAIN order |-> Joined(order[i], news)]
    /\ IF \E i \in DOMAIN rows' : Malformed(rows'[i])
       THEN /\ pc' = "crashed"
            /\ UNCHANGED <<metric_rows, daily_metrics>>
       ELSE /\ metric_rows' = MetricRows(rows')
            /\ daily_metrics' = IF metric_rows' # <<>>
                                THEN UpsertDailyMetrics(daily_metrics, metric_rows')
                                ELSE daily_metrics
            /\ pc' = "briefs_query"
    /\ UNCHANGED <<runs, external, news, news_nlp, market_briefs, fetched,
                   news_rows, metrics, asset_i, signal, last>>

\* lines 259-264: the metric rows of the lookback window are read
BriefsQuery ==
    /\ pc = "briefs_query"
    /\ metrics' = Window(daily_metrics, today - LOOKBACK_DAYS)
    /\ asset_i' = 1
    /\ pc' = "briefs"
    /\ UNCHANGED <<clock, runs, external, tables, fetched, news_rows, rows,
                   metric_rows, today, signal, last>>

\* one pass of the loop of lines 268-312
BriefStep ==
    /\ pc = "briefs"
    /\ asset_i <= Len(assets)
    /\ rows' \in RowsOf(metrics, assets[asset_i])
    /\ IF rows' = <<>>
       THEN UNCHANGED <<signal, market_briefs>>
       ELSE /\ signal' \in DominantSignals(rows')
            /\ market_briefs' =
                 Append(market_briefs,
                        BriefRow(assets[asset_i], today - LOOKBACK_DAYS, today,
                                 Prompt(assets[asset_i], today - LOOKBACK_DAYS,
                                        today, rows', signal')))
    /\ asset_i' = asset_i + 1
    /\ UNCHANGED <<clock, runs, external, pc, news, news_nlp, daily_metrics,
                   fetched, news_rows, metric_rows, today, metrics, last>>

\* line 314
Complete ==
    /\ pc = "briefs"
    /\ asset_i > Len(assets)
    /\ pc' = "done"
    /\ UNCHANGED <<clock, runs, external, tables, locals, last>>

\* the script is executed again: a new process, the same store
Restart ==
    /\ pc \in {"done", "crashed"}
    /\ runs < MaxRuns
    /\ runs' = runs + 1
    /\ pc' = "fetch"
    /\ last' = [fetched |-> fetched, daily_metrics |-> daily_metrics]
    /\ fetched' = {}
    /\ news_rows' = <<>>
    /\ rows' = <<>>
    /\ metric_rows' = <<>>
    /\ today' = 0
    /\ metrics' = {}
    /\ asset_i' = 0
    /\ signal' = ""
    /\ UNCHANGED <<clock, external, tables>>

\* Something other than this script writes to the store (the assets table the
\* script reads is filled that way): a news_nlp row whose news_id refers to no
\* row of news, a sentiment_score set to NULL, or a published_at set to NULL.
\* The script reads news and news_nlp up to its metrics section only, so a
\* write made later in a run is taken at the start of the next one.
ExternalWrite ==
    /\ external < MaxExternal
    /\ pc \in {"fetch", "nlp", "metrics"}
    /\ external' = external + 1
    /\ \/ /\ news_nlp' = news_nlp \cup
                {[news_id |-> 0, sentiment_score |-> Lit(7, 10),
                  sentiment_label |-> "positive"]}
          /\ UNCHANGED news
       \/ /\ \E r \in news_nlp :
                news_nlp' = (news_nlp \ {r}) \cup
                            {[r EXCEPT !.sentiment_score = NULL]}
          /\ UNCHANGED news
       \/ /\ \E n \in news :
                news' = (news \ {n}) \cup {[n EXCEPT !.published_at = NULL]}
          /\ UNCHANGED news_nlp
    /\ UNCHANGED <<clock, runs, pc, daily_metrics, market_briefs, locals, last>>

Next ==
    \/ FetchNews
    \/ Sentiment
    \/ DailyMetrics
    \/ BriefsQuery
    \/ BriefStep
    \/ Complete
    \/ Restart

\* the script alone writes to the store
Spec == Init /\ [][Next]_vars

\* the store has other writers
SpecExt == Init /\ [][Next \/ ExternalWrite]_vars

\* ------------------------------------------------------------------------
\* Properties
\* ------------------------------------------------------------------------

\* the metrics section of the running script has completed
PostMetrics == pc \in {"briefs_query", "briefs", "done"}

\* ... and the loop of the briefs has not yet reused the name rows
JustAggregated == pc = "briefs_query"

\* the key of a scored row, as the claims state it
KeyOfRow(row) == <<row.news.asset_id, Prefix10(row.news.published_at)>>

KeyOfMetric(m) == <<m.asset_id, m.metric_date>>

\* the rule order of the design: volatility, positive, negative, neutral
FirstRule(avg, std) ==
    IF FGt(std, Lit(5, 10)) THEN "high_uncertainty"
    ELSE IF FGt(avg, Lit(15, 100)) THEN "positive_momentum"
    ELSE IF FLt(avg, Lit(-15, 100)) THEN "caution"
    ELSE "neutral"

\* C1: the signal of every metric row is the first rule that holds in the
\* order volatility, positive, negative, neutral; so a group whose
\* sentiment_std exceeds 0.5 is high_uncertainty whatever its avg_sentiment.
C1_VolatilityFirst ==
    PostMetrics =>
        \A i \in DOMAIN metric_rows :
            metric_rows[i].signal =
                FirstRule(metric_rows[i].avg_sentiment, metric_rows[i].sentiment_std)

\* C2: every group with fewer than 3 scored rows is classified low_coverage.
C2_LowCoverage ==
    PostMetrics =>
        \A i \in DOMAIN metric_rows :
            metric_rows[i].news_volume < 3 => metric_rows[i].signal = "low_coverage"

\* C3: the metric rows are one per (asset_id, published_at[:10]) key of the
\* scored rows and none else, news_volume is the number of scored rows with the
\* row's key, and the volumes add up to the number of scored rows read.
C3_OneRowPerKey ==
    JustAggregated =>
        /\ {KeyOfMetric(metric_rows[i]) : i \in DOMAIN metric_rows}
             = {KeyOfRow(rows[j]) : j \in DOMAIN rows}
        /\ \A i, j \in DOMAIN metric_rows :
             KeyOfMetric(metric_rows[i]) = KeyOfMetric(metric_rows[j]) => i = j
        /\ \A i \in DOMAIN metric_rows :
             metric_rows[i].news_volume =
                Cardinality({j \in DOMAIN rows :
                                KeyOfRow(rows[j]) = KeyOfMetric(metric_rows[i])})
        /\ TotalNews(metric_rows) = Len(rows)

\* C3 witness: two groups, one of them of two rows published at different
\* times of the same day
C3_Witness ==
    /\ JustAggregated
    /\ Len(metric_rows) >= 2
    /\ \E i, j \in DOMAIN rows :
         /\ KeyOfRow(rows[i]) = KeyOfRow(rows[j])
         /\ rows[i].news.published_at # rows[j].news.published_at

\* C4: daily_metrics never holds two rows with the same (asset_id,
\* metric_date); once a run has written its metric rows the store holds
\* exactly these for their keys, and any other row is as the run found it.
C4_UpsertReplaces ==
    /\ \A a, b \in daily_metrics : KeyOfMetric(a) = KeyOfMetric(b) => a = b
    /\ PostMetrics =>
        /\ Range(metric_rows) \subseteq daily_metrics
        /\ \A m \in daily_metrics \ Range(metric_rows) : m \in last.daily_metrics

\* C4 witness: a run has replaced a row the run before it wrote by a row of
\* other values
C4_Witness ==
    /\ PostMetrics
    /\ \E old \in last.daily_metrics :
         \E i \in DOMAIN metric_rows :
            /\ KeyOfMetric(old) = KeyOfMetric(metric_rows[i])
            /\ old # metric_rows[i]
            /\ metric_rows[i] \in daily_metrics

\* the rows of rs that are not malformed
WellFormed(rs) == SelectSeq(rs, LAMBDA r : ~Malformed(r))

\* C5: a malformed scored row does not abort the run, and the metric rows are
\* those of the well-formed rows.
C5_MalformedSkipped ==
    /\ pc # "crashed"
    /\ JustAggregated =>
         Range(metric_rows) = Range(MetricRows(WellFormed(rows)))

\* the signal with the greatest count whose first row comes first
FirstSeenDominant(rs) ==
    LET first(s) == CHOOSE i \in DOMAIN rs :
                        /\ rs[i].signal = s
                        /\ \A j \in 1..(i - 1) : rs[j].signal # s
        most == {s \in {rs[i].signal : i \in DOMAIN rs} :
                    \A j \in DOMAIN rs : Count(rs, s) >= Count(rs, rs[j].signal)}
    IN  CHOOSE s \in most : \A t \in most : first(s) <= first(t)

\* C6: the dominant signal of a brief is the most frequent signal of the
\* asset's rows, and among the most frequent ones the first seen.
C6_FirstSeenTieBreak ==
    (pc = "briefs" /\ asset_i > 1 /\ rows # <<>>) => signal = FirstSeenDominant(rows)

\* C7: with no scored rows the metrics section computes no metric row and
\* leaves daily_metrics as it is.
C7_EmptyInput ==
    [][(pc = "metrics" /\ news_nlp = {}) =>
            /\ metric_rows' = <<>>
            /\ daily_metrics' = daily_metrics
            /\ pc' = "briefs_query"]_vars

\* C7 witness: the metrics section has run on an empty news_nlp
C7_Witness ==
    /\ pc = "briefs_query"
    /\ news_nlp = {}
    /\ rows = <<>>
    /\ metric_rows = <<>>
    /\ daily_metrics = {}

\* C8: the metric rows do not depend on the order the scored rows were read in.
C8_OrderIndependent ==
    JustAggregated =>
        \A p \in Reorderings(rows) :
            Range(MetricRows(p)) = Range(metric_rows)

\* C9: a group of one scored row has sentiment_std 0 and is not
\* high_uncertainty.
C9_SingleRowStdZero ==
    PostMetrics =>
        \A i \in DOMAIN metric_rows :
            metric_rows[i].news_volume = 1 =>
                /\ metric_rows[i].sentiment_std = Zero
                /\ metric_rows[i].signal # "high_uncertainty"

\* C9 witness: a group of one row whose score is not 0
C9_Witness ==
    /\ PostMetrics
    /\ \E i \in DOMAIN metric_rows :
         /\ metric_rows[i].news_volume = 1
         /\ metric_rows[i].avg_sentiment # Zero

\* C10: a run that is given the feed entries the run before it was given
\* leaves daily_metrics as that run left it, every news_volume being the
\* number of distinct articles of the asset and day.
C10_RerunIdempotent ==
    (pc = "done" /\ runs >= 2 /\ fetched = last.fetched) =>
        /\ daily_metrics = last.daily_metrics
        /\ \A m \in daily_metrics :
             m.news_volume =
                Cardinality({n.url : n \in {x \in news :
                    /\ x.asset_id = m.asset_id
                    /\ Prefix10(x.published_at) = m.metric_date}})

====
